---- MODULE Spec2Model ----
(***************************************************************************)
(* State-machine model of gan.ipynb: the model-building cell, the training *)
(* loop cell and the sample-generation cell, executed top to bottom.       *)
(* An uncaught Python exception ends the execution ("aborted").            *)
(*                                                                         *)
(* Tensors are modelled by their shapes (sequences of dimensions) and by   *)
(* whether they hold NaN. The parameters of D and G are modelled by a      *)
(* version number per model (one optimizer update = one new version) and   *)
(* by whether they hold NaN. Keras collects the trainable weights of a     *)
(* model when the model is compiled; train_on_batch updates exactly the    *)
(* collected weights of the model it is called on.                         *)
(***************************************************************************)
EXTENDS Integers, Sequences, FiniteSets

\* ---------------------------------------------------------------- bounds

\* epochs = 30000 in the notebook; the model runs the same loop for fewer
\* iterations (more than two logging periods).
epochs == 201

\* --------------------------------------------------- program constants

batch_size == 32

LogEvery == 100

n == 9

\* Shapes of X_train the run may start from: (M, H, W) image stacks, one
\* stack with a channel axis (M, H, W, C) and one flattened stack (M, R).
Datasets ==
  { <<100, 28, 28>>, <<1, 1, 1>>, <<2, 1, 2>>, <<3, 2, 2>>,
    <<100, 28, 28, 3>>, <<100, 784>> }

Models == {"D", "G"}

\* int(a / b) for the non-negative operands of the notebook
IntDiv(a, b) == a \div b

\* Variant: the discriminator batches are not halved.
half_batch_size_unhalved == batch_size

half_batch_size == IntDiv(batch_size, 2)

VARIABLES
  X_train,     \* shape of the dataset array
  pc,          \* statement about to execute
  error,       \* "none" or the exception that ended the run
  img_shape,   \* <<H, W>> once computed, <<>> before
  res,         \* H * W
  noise_res,   \* int(res / 4)
  layers,      \* layers[m]: widths of the Dense layers of model m, <<>> = not built
  trainable,   \* trainable[m]: the .trainable attribute of model m
  collected,   \* collected[c]: models whose weights compiled model c updates
  W,           \* W[m]: version of the parameters of model m
  nanW,        \* nanW[m]: the parameters of model m hold NaN
  epoch,       \* loop variable, -1 before the loop
  real_imgs,   \* shape of the real batch, <<>> = unset
  noise,       \* shape of the last noise array
  fake_imgs,   \* [shape, nan] of the generated half batch
  rloss, floss, dloss, gloss,  \* results of the training steps
  log,         \* printed diagnostic lines
  imgs,        \* shape of the final samples, <<>> = not generated
  calls,       \* number of train_on_batch invocations (including a failed one)
  n_pred,      \* number of completed G.predict calls inside the loop
  n_real, n_fake, n_gen,  \* completed training steps of each kind
  d_batches, g_batches,   \* sizes of the batches of the completed D / G steps
  real_idxs,   \* indices of the real batch (positions 1..k), <<>> = unset
  n_final,     \* number of completed G.predict calls after the loop
  fed,         \* the (input, targets) pairs handed to completed training steps
  seen         \* parameter versions read by the last composite step / predict

vars ==
  << X_train, pc, error, img_shape, res, noise_res, layers, trainable,
     collected, W, nanW, epoch, real_imgs, noise, fake_imgs, rloss, floss,
     dloss, gloss, log, imgs, calls, n_pred, n_real, n_fake, n_gen,
     d_batches, g_batches, real_idxs, n_final, fed, seen >>

NoResult == [loss |-> "unset", acc |-> "unset", of |-> {}]

Init ==
  /\ X_train \in Datasets
  /\ pc = "shapes"
  /\ error = "none"
  /\ img_shape = <<>>
  /\ res = 0
  /\ noise_res = 0
  /\ layers = [m \in Models |-> <<>>]
  /\ trainable = [m \in Models |-> TRUE]
  /\ collected = [c \in {"D", "full_gan"} |-> {}]
  /\ W = [m \in Models |-> 0]
  /\ nanW = [m \in Models |-> FALSE]
  /\ epoch = -1
  /\ real_imgs = <<>>
  /\ noise = <<>>
  /\ fake_imgs = [shape |-> <<>>, nan |-> FALSE]
  /\ rloss = NoResult
  /\ floss = NoResult
  /\ dloss = NoResult
  /\ gloss = NoResult
  /\ log = <<>>
  /\ imgs = <<>>
  /\ calls = 0
  /\ n_pred = 0
  /\ n_real = 0
  /\ n_fake = 0
  /\ n_gen = 0
  /\ d_batches = {}
  /\ g_batches = {}
  /\ real_idxs = <<>>
  /\ n_final = 0
  /\ fed = {}
  /\ seen = [gen_D |-> -1, pred_G |-> -1]


\* ------------------------------------------------------ control flow

\* Variant: the generator step is placed before the discriminator steps.
After_genfirst(p) ==
  CASE p = "shapes"       -> "build_D"
    [] p = "build_D"      -> "build_G"
    [] p = "build_G"      -> "build_gan"
    [] p = "build_gan"    -> "loop"
    [] p = "sample_real"  -> "predict_fake"
    [] p = "predict_fake" -> "train_gen"
    [] p = "train_gen"    -> "train_real"
    [] p = "train_real"   -> "train_fake"
    [] p = "train_fake"   -> "combine"
    [] p = "combine"      -> "print"
    [] p = "print"        -> "loop"
    [] p = "final"        -> "done"

\* Variant: a generator step is run again after the samples are generated.
After_trainlast(p) ==
  CASE p = "shapes"       -> "build_D"
    [] p = "build_D"      -> "build_G"
    [] p = "build_G"      -> "build_gan"
    [] p = "build_gan"    -> "loop"
    [] p = "sample_real"  -> "predict_fake"
    [] p = "predict_fake" -> "train_real"
    [] p = "train_real"   -> "train_fake"
    [] p = "train_fake"   -> "combine"
    [] p = "combine"      -> "train_gen"
    [] p = "train_gen"    -> "print"
    [] p = "print"        -> "loop"
    [] p = "final"        -> "train_gen"

\* The statement executed after statement p completes normally.
After(p) ==
  CASE p = "shapes"       -> "build_D"
    [] p = "build_D"      -> "build_G"
    [] p = "build_G"      -> "build_gan"
    [] p = "build_gan"    -> "loop"
    [] p = "sample_real"  -> "predict_fake"
    [] p = "predict_fake" -> "train_real"
    [] p = "train_real"   -> "train_fake"
    [] p = "train_fake"   -> "combine"
    [] p = "combine"      -> "train_gen"
    [] p = "train_gen"    -> "print"
    [] p = "print"        -> "loop"
    [] p = "final"        -> "done"

\* Variant: a NaN loss is detected and ends the run.
AfterTrain_nancheck(p, result) ==
  IF result.loss = "nan" THEN "aborted" ELSE After(p)

\* The statement executed after a train_on_batch call at p returned `result`:
\* the notebook never inspects the returned loss.
AfterTrain(p, result) == After(p)

\* Variant: the exception is swallowed and the script goes on.
OnError_swallow(p) == After(p)

\* An exception raised at statement p is caught nowhere.
OnError(p) == "aborted"

\* Variant: the range is one short.
HasNext_short(e) == e + 2 < epochs

\* `for epoch in range(epochs)`: TRUE iff the loop has an iteration after e.
HasNext(e) == e + 1 < epochs

\* Variant: off by one, the line is printed at the end of each period.
ShouldPrint_late(e) == (e + 1) % LogEvery = 0

ShouldPrint(e) == e % LogEvery = 0

\* ------------------------------------------------------ framework calls

\* The sub-models whose weights a compiled model contains.
ModelParts(c) == IF c = "full_gan" THEN {"G", "D"} ELSE {c}

\* Variant: compile() ignores the trainable flags.
CollectTrainable_all(c, tr) == ModelParts(c)

\* compile(): the weights a later train_on_batch on c updates are those of
\* the parts flagged trainable at the time of the call.
CollectTrainable(c, tr) == {m \in ModelParts(c) : tr[m]}

\* D.trainable = False
Freeze(tr) == [tr EXCEPT !["D"] = FALSE]

\* Variant: the flag is set back after the composite model is compiled.
FlagsAfterBuild_restore(tr) == [tr EXCEPT !["D"] = TRUE]

\* The flags the model-building cell leaves behind: the assignment above is
\* never undone.
FlagsAfterBuild(tr) == Freeze(tr)

\* Input shape (without the batch axis) a model expects.
InputShape(c) == IF c = "D" THEN img_shape ELSE <<noise_res>>

\* The framework's check of a batch x with targets of length ylen.
BatchOK(c, x, ylen) == /\ Len(x) >= 1
                       /\ Tail(x) = InputShape(c)
                       /\ x[1] = ylen

\* A layer of width 0 (or an input of length 0) is accepted by some framework
\* versions and refused by others (the notebook checks nothing itself).
Accepts(dims) ==
  IF \A i \in 1..Len(dims) : dims[i] > 0 THEN {TRUE} ELSE {TRUE, FALSE}

\* Variant: inference that also applies an update to G.
predict_updating(w) == [w EXCEPT !["G"] = @ + 1]

\* predict(): forward inference, the parameters are returned as they were.
predict(w) == w

\* Variant: the composite model holds copies of the weights, made when it was
\* constructed.
WeightsSeen_copy(c, m, w) == IF c = "full_gan" THEN 0 ELSE w[m]

\* The parameters of part m that model c evaluates: full_gan = Model(z, D(G(z)))
\* calls the layers of D and G themselves, so every model reads the one
\* storage w.
WeightsSeen(c, m, w) == w[m]

\* One optimizer update of the weights compiled model c collected.
Update(c, w) == [m \in Models |-> IF m \in collected[c] THEN w[m] + 1 ELSE w[m]]

\* The loss of a step of c is NaN when the step diverges, when its input
\* holds NaN or when a weight it evaluates holds NaN.
LossNaN(c, xnan, diverge) ==
  diverge \/ xnan \/ (\E m \in ModelParts(c) : nanW[m])

\* A NaN loss has a NaN gradient, which the update writes into the weights.
UpdateNaN(c, lossnan) ==
  [m \in Models |-> IF m \in collected[c] THEN nanW[m] \/ lossnan ELSE nanW[m]]

\* [loss, accuracy] as train_on_batch returns them; `of` records the epoch
\* the values were computed in.
Result(lossnan) ==
  [loss |-> IF lossnan THEN "nan" ELSE "finite", acc |-> "finite", of |-> {epoch}]

\* 0.5 * np.add(r, f), elementwise
Mean(r, f) ==
  [loss |-> IF r.loss = "nan" \/ f.loss = "nan" THEN "nan" ELSE "finite",
   acc  |-> "finite",
   of   |-> r.of \cup f.of]

Line(e, d, g) ==
  [epoch |-> e, d_loss |-> d.loss, d_acc |-> d.acc, g_loss |-> g.loss,
   of |-> d.of \cup g.of]

\* Variant: the upper end of the range is included.
randint_inclusive(high) == 0 .. high

\* np.random.randint(high, size=k): every one of the k values is drawn from
\* 0 .. high-1.
randint(high) == 0 .. (high - 1)

\* The values of a range the model draws: its smallest and its largest.
Extremes(S) ==
  {x \in S : \A y \in S : x <= y} \cup {x \in S : \A y \in S : x >= y}

\* An index array of length k; the odd and the even positions are drawn
\* separately (a and b), so that a value may repeat and two values may differ.
IndexArray(a, b, k) == [i \in 1..k |-> IF i % 2 = 1 THEN a ELSE b]

\* X[idx] raises IndexError unless every index addresses a row of X.
CanTake(X, idx) == \A i \in 1..Len(idx) : idx[i] \in -X[1] .. X[1] - 1

\* Shape of X[idx]: one row per index, the dataset itself is only read.
Take(X, idx) == <<Len(idx)>> \o Tail(X)

\* np.ones(k), np.zeros(k): k targets of one value
np_ones(k) == [len |-> k, value |-> 1]

np_zeros(k) == [len |-> k, value |-> 0]

\* Targets of the discriminator step on the real batch.
RealTargets == np_ones(half_batch_size)

\* Variant: the fake batch is labelled like the real one.
FakeTargets_ones == np_ones(half_batch_size)

\* Targets of the discriminator step on the fake batch.
FakeTargets == np_zeros(half_batch_size)

\* Targets of the composite step.
GenTargets == np_ones(batch_size)

\* What a completed training step of model c was handed: the variable passed
\* as input, its batch size and the targets.
Fed(c, name, x, y) == [model |-> c, x |-> name, size |-> x[1], y |-> y]

\* ---------------------------------------------------------- actions

shapeVars == <<img_shape, res, noise_res>>
modelVars == <<layers, trainable, collected>>
paramVars == <<W, nanW>>
batchVars == <<real_imgs, noise, fake_imgs>>
lossVars  == <<rloss, floss, dloss, gloss>>
countVars == <<calls, n_pred, n_real, n_fake, n_gen, d_batches, g_batches>>
traceVars == <<n_final, fed, seen>>

Raise(exc) ==
  /\ pc' = OnError(pc)
  /\ error' = exc

\* img_shape, res, noise_res
ComputeShapes ==
  /\ pc = "shapes"
  /\ IF Len(X_train) < 3
       THEN /\ Raise("IndexError")
            /\ UNCHANGED shapeVars
       ELSE /\ img_shape' = <<X_train[2], X_train[3]>>
            /\ res' = X_train[2] * X_train[3]
            /\ noise_res' = IntDiv(X_train[2] * X_train[3], 4)
            /\ pc' = After(pc)
            /\ error' = error
  /\ UNCHANGED <<X_train, modelVars, paramVars, epoch, batchVars, lossVars,
                 log, imgs, countVars,
                 real_idxs, traceVars>>

\* D = Sequential() ... D.compile(...)
BuildD ==
  /\ pc = "build_D"
  /\ LET widths == <<IntDiv(res, 2), IntDiv(res, 4), IntDiv(res, 8), 1>>
     IN \E ok \in Accepts(widths) :
          IF ok
            THEN /\ layers' = [layers EXCEPT !["D"] = widths]
                 /\ collected' =
                      [collected EXCEPT !["D"] = CollectTrainable("D", trainable)]
                 /\ pc' = After(pc)
                 /\ error' = error
            ELSE /\ Raise("ValueError")
                 /\ UNCHANGED <<layers, collected>>
  /\ UNCHANGED <<X_train, shapeVars, trainable, paramVars, epoch, batchVars,
                 lossVars, log, imgs, countVars,
                 real_idxs, traceVars>>

\* G = Sequential() ... G.summary()
BuildG ==
  /\ pc = "build_G"
  /\ LET widths == <<IntDiv(res, 4), IntDiv(res, 2), res, res>>
     IN \E ok \in Accepts(<<noise_res>> \o widths) :
          IF ok
            THEN /\ layers' = [layers EXCEPT !["G"] = widths]
                 /\ pc' = After(pc)
                 /\ error' = error
            ELSE /\ Raise("ValueError")
                 /\ UNCHANGED layers
  /\ UNCHANGED <<X_train, shapeVars, trainable, collected, paramVars, epoch,
                 batchVars, lossVars, log, imgs, countVars,
                 real_idxs, traceVars>>

\* z = Input(...); D.trainable = False; full_gan = Model(...); full_gan.compile(...)
BuildGAN ==
  /\ pc = "build_gan"
  /\ \E ok \in Accepts(<<noise_res>>) :
       IF ok
         THEN /\ collected' =
                   [collected EXCEPT
                      !["full_gan"] = CollectTrainable("full_gan", Freeze(trainable))]
              /\ trainable' = FlagsAfterBuild(trainable)
              /\ pc' = After(pc)
              /\ error' = error
         ELSE /\ Raise("ValueError")
              /\ UNCHANGED <<collected, trainable>>
  /\ UNCHANGED <<X_train, shapeVars, layers, paramVars, epoch, batchVars,
                 lossVars, log, imgs, countVars,
                 real_idxs, traceVars>>

\* for epoch in range(epochs):
LoopHead ==
  /\ pc = "loop"
  /\ IF HasNext(epoch)
       THEN /\ epoch' = epoch + 1
            /\ pc' = "sample_real"
       ELSE /\ epoch' = epoch
            /\ pc' = "final"
  /\ UNCHANGED <<X_train, error, shapeVars, modelVars, paramVars, batchVars,
                 lossVars, log, imgs, countVars,
                 real_idxs, traceVars>>

\* real_idxs = np.random.randint(...); real_imgs = X_train[real_idxs]
SampleReal ==
  /\ pc = "sample_real"
  /\ \E a, b \in Extremes(randint(X_train[1])) :
       /\ real_idxs' = IndexArray(a, b, half_batch_size)
       /\ IF CanTake(X_train, real_idxs')
            THEN /\ real_imgs' = Take(X_train, real_idxs')
                 /\ pc' = After(pc)
                 /\ error' = error
            ELSE /\ Raise("IndexError")
                 /\ UNCHANGED real_imgs
  /\ UNCHANGED <<X_train, shapeVars, modelVars, paramVars, epoch, noise,
                 fake_imgs, lossVars, log, imgs, countVars, traceVars>>

\* noise = np.random.normal(...); fake_imgs = G.predict(noise)
PredictFake ==
  /\ pc = "predict_fake"
  /\ noise' = <<half_batch_size, noise_res>>
  /\ IF BatchOK("G", noise', noise'[1])
       THEN /\ fake_imgs' = [shape |-> <<noise'[1]>> \o img_shape, nan |-> nanW["G"]]
            /\ W' = predict(W)
            /\ n_pred' = n_pred + 1
            /\ seen' = [seen EXCEPT !.pred_G = WeightsSeen("G", "G", W)]
            /\ pc' = After(pc)
            /\ error' = error
       ELSE /\ Raise("ValueError")
            /\ UNCHANGED <<fake_imgs, W, n_pred, seen>>
  /\ UNCHANGED <<X_train, shapeVars, modelVars, nanW, epoch, real_imgs, lossVars,
                 log, imgs, calls, n_real, n_fake, n_gen, d_batches, g_batches,
                 real_idxs, n_final, fed>>

\* rloss = D.train_on_batch(real_imgs, np.ones(half_batch_size))
TrainReal ==
  /\ pc = "train_real"
  /\ calls' = calls + 1
  /\ IF BatchOK("D", real_imgs, RealTargets.len)
       THEN \E diverge \in BOOLEAN :
              LET lossnan == LossNaN("D", FALSE, diverge)
              IN /\ rloss' = Result(lossnan)
                 /\ W' = Update("D", W)
                 /\ nanW' = UpdateNaN("D", lossnan)
                 /\ n_real' = n_real + 1
                 /\ d_batches' = d_batches \cup {real_imgs[1]}
                 /\ fed' = fed \cup {Fed("D", "real_imgs", real_imgs, RealTargets)}
                 /\ pc' = AfterTrain(pc, Result(lossnan))
                 /\ error' = error
       ELSE /\ Raise("ValueError")
            /\ UNCHANGED <<rloss, W, nanW, n_real, d_batches, fed>>
  /\ UNCHANGED <<X_train, shapeVars, modelVars, epoch, batchVars, floss, dloss,
                 gloss, log, imgs, n_pred, n_fake, n_gen, g_batches,
                 real_idxs, n_final, seen>>

\* floss = D.train_on_batch(fake_imgs, np.zeros(half_batch_size))
TrainFake ==
  /\ pc = "train_fake"
  /\ calls' = calls + 1
  /\ IF BatchOK("D", fake_imgs.shape, FakeTargets.len)
       THEN \E diverge \in BOOLEAN :
              LET lossnan == LossNaN("D", fake_imgs.nan, diverge)
              IN /\ floss' = Result(lossnan)
                 /\ W' = Update("D", W)
                 /\ nanW' = UpdateNaN("D", lossnan)
                 /\ n_fake' = n_fake + 1
                 /\ d_batches' = d_batches \cup {fake_imgs.shape[1]}
                 /\ fed' = fed \cup {Fed("D", "fake_imgs", fake_imgs.shape, FakeTargets)}
                 /\ pc' = AfterTrain(pc, Result(lossnan))
                 /\ error' = error
       ELSE /\ Raise("ValueError")
            /\ UNCHANGED <<floss, W, nanW, n_fake, d_batches, fed>>
  /\ UNCHANGED <<X_train, shapeVars, modelVars, epoch, batchVars, rloss, dloss,
                 gloss, log, imgs, n_pred, n_real, n_gen, g_batches,
                 real_idxs, n_final, seen>>

\* dloss = 0.5 * np.add(rloss, floss)
Combine ==
  /\ pc = "combine"
  /\ dloss' = Mean(rloss, floss)
  /\ pc' = After(pc)
  /\ UNCHANGED <<X_train, error, shapeVars, modelVars, paramVars, epoch,
                 batchVars, rloss, floss, gloss, log, imgs, countVars,
                 real_idxs, traceVars>>

\* noise = np.random.normal(...); gloss = full_gan.train_on_batch(noise, np.ones(batch_size,))
TrainGen ==
  /\ pc = "train_gen"
  /\ noise' = <<batch_size, noise_res>>
  /\ calls' = calls + 1
  /\ IF BatchOK("full_gan", noise', GenTargets.len)
       THEN \E diverge \in BOOLEAN :
              LET lossnan == LossNaN("full_gan", FALSE, diverge)
              IN /\ gloss' = Result(lossnan)
                 /\ W' = Update("full_gan", W)
                 /\ nanW' = UpdateNaN("full_gan", lossnan)
                 /\ n_gen' = n_gen + 1
                 /\ g_batches' = g_batches \cup {noise'[1]}
                 /\ fed' = fed \cup {Fed("full_gan", "noise", noise', GenTargets)}
                 /\ seen' = [seen EXCEPT !.gen_D = WeightsSeen("full_gan", "D", W)]
                 /\ pc' = AfterTrain(pc, Result(lossnan))
                 /\ error' = error
       ELSE /\ Raise("ValueError")
            /\ UNCHANGED <<gloss, W, nanW, n_gen, g_batches, fed, seen>>
  /\ UNCHANGED <<X_train, shapeVars, modelVars, epoch, real_imgs, fake_imgs,
                 rloss, floss, dloss, log, imgs, n_pred, n_real, n_fake, d_batches,
                 real_idxs, n_final>>

\* if epoch % 100 == 0: print(...)
PrintLine ==
  /\ pc = "print"
  /\ log' = IF ShouldPrint(epoch) THEN Append(log, Line(epoch, dloss, gloss)) ELSE log
  /\ pc' = After(pc)
  /\ UNCHANGED <<X_train, error, shapeVars, modelVars, paramVars, epoch,
                 batchVars, lossVars, imgs, countVars,
                 real_idxs, traceVars>>

\* noise = np.random.normal(size=(n, noise_res)); imgs = G.predict(noise)
FinalSamples ==
  /\ pc = "final"
  /\ noise' = <<n, noise_res>>
  /\ IF BatchOK("G", noise', n)
       THEN /\ imgs' = <<noise'[1]>> \o img_shape
            /\ W' = predict(W)
            /\ n_final' = n_final + 1
            /\ pc' = After(pc)
            /\ error' = error
       ELSE /\ Raise("ValueError")
            /\ UNCHANGED <<imgs, W, n_final>>
  /\ UNCHANGED <<X_train, shapeVars, modelVars, nanW, epoch, real_imgs,
                 fake_imgs, lossVars, log, countVars,
                 real_idxs, fed, seen>>

Next ==
  \/ ComputeShapes
  \/ BuildD
  \/ BuildG
  \/ BuildGAN
  \/ LoopHead
  \/ SampleReal
  \/ PredictFake
  \/ TrainReal
  \/ TrainFake
  \/ Combine
  \/ TrainGen
  \/ PrintLine
  \/ FinalSamples

Spec == Init /\ [][Next]_vars

\* The interpreter runs the single control flow without pausing: a statement
\* that can execute does execute.
FairSpec == Spec /\ WF_vars(Next)


\* ------------------------------------------------------------ properties

Steps == n_real + n_fake + n_gen

\* C1: the training steps occur strictly in the order discriminator-on-real,
\* discriminator-on-fake, generator. A discriminator-on-real step is taken
\* only when every earlier epoch's generator step is complete and this
\* epoch's fake batch has been generated; a discriminator-on-fake step only
\* right after this epoch's real step; a generator step only after both.
C1_StepOrder ==
  [][ /\ (n_real' # n_real =>
            /\ n_real' = n_real + 1
            /\ n_real = epoch /\ n_fake = epoch /\ n_gen = epoch
            /\ n_pred = epoch + 1
            /\ n_fake' = n_fake /\ n_gen' = n_gen)
      /\ (n_fake' # n_fake =>
            /\ n_fake' = n_fake + 1
            /\ n_real = epoch + 1 /\ n_fake = epoch /\ n_gen = epoch
            /\ n_real' = n_real /\ n_gen' = n_gen)
      /\ (n_gen' # n_gen =>
            /\ n_gen' = n_gen + 1
            /\ n_real = epoch + 1 /\ n_fake = epoch + 1 /\ n_gen = epoch
            /\ n_real' = n_real /\ n_fake' = n_fake)
      /\ (n_pred' # n_pred =>
            /\ n_pred' = n_pred + 1
            /\ n_pred = epoch /\ n_real = epoch /\ n_gen = epoch) ]_vars

C1_Witness == pc = "print" /\ epoch = 1 /\ n_real = 2 /\ n_fake = 2 /\ n_gen = 2

\* C2: after k completed epochs (k = epoch + 1 at the loop head and after the
\* loop) exactly 2k discriminator updates have been made, each on 16
\* examples, and exactly k generator updates, each on 32 examples; and a run
\* on a stack of H x W images with H * W >= 8 (28 x 28 among them) never
\* raises an error.
C2_UpdateCounts ==
  /\ (pc \in {"loop", "final", "done"} =>
        /\ n_real = epoch + 1
        /\ n_fake = epoch + 1
        /\ n_gen = epoch + 1
        /\ calls = 3 * (epoch + 1)
        /\ d_batches = (IF epoch >= 0 THEN {16} ELSE {})
        /\ g_batches = (IF epoch >= 0 THEN {32} ELSE {}))
  /\ ((Len(X_train) = 3 /\ X_train[2] * X_train[3] >= 8) => error = "none")

C2_Witness ==
  /\ pc = "loop" /\ epoch = 1 /\ X_train = <<100, 28, 28>>
  /\ n_real + n_fake = 4 /\ n_gen = 2

\* C3: a direct discriminator step changes D's parameters and leaves G's as
\* they were; a generator (composite) step changes G's parameters and leaves
\* D's exactly as they were.
C3_Frame ==
  [][ /\ ((n_real' # n_real \/ n_fake' # n_fake) =>
            /\ W'["D"] # W["D"]
            /\ W'["G"] = W["G"] /\ nanW'["G"] = nanW["G"])
      /\ (n_gen' # n_gen =>
            /\ W'["G"] # W["G"]
            /\ W'["D"] = W["D"] /\ nanW'["D"] = nanW["D"]) ]_vars

C3_Witness == pc = "print" /\ epoch = 2 /\ W["D"] = 6 /\ W["G"] = 3

\* C4 as claimed: D's flag is "trainable" at every direct discriminator step
\* and "frozen" at every generator step.
C4_FlagToggles ==
  /\ (pc \in {"train_real", "train_fake"} => trainable["D"])
  /\ (pc = "train_gen" => ~trainable["D"])

\* C4 as amended: the flag is cleared once, when the composite model is
\* built, and stays cleared at every training step, direct or composite;
\* D's own steps update D and the composite's steps update only G because
\* each compiled model keeps the weights it collected when it was compiled.
C4_FlagStaysFrozen ==
  pc \in {"loop", "sample_real", "predict_fake", "train_real", "train_fake",
          "combine", "train_gen", "print", "final", "done"} =>
     /\ ~trainable["D"]
     /\ trainable["G"]
     /\ collected["D"] = {"D"}
     /\ collected["full_gan"] = {"G"}

C4_Witness == pc = "train_fake" /\ epoch = 1 /\ ~trainable["D"] /\ W["D"] = 3

\* C5: a forward-inference call of G (the fake half batch of an epoch, the
\* final samples) leaves the parameters of G and of D unchanged.
C5_PredictFrame ==
  [][ (n_pred' # n_pred \/ imgs' # imgs) => (W' = W /\ nanW' = nanW) ]_vars

C5_Witness == pc = "done" /\ imgs = <<9>> \o img_shape /\ n_pred >= 2


\* The last epoch whose print statement has been passed.
PrintedThrough == IF pc \in {"loop", "final", "done"} THEN epoch ELSE epoch - 1

\* C6: a line is printed in epoch e iff e is a multiple of 100, starting with
\* epoch 0: the i-th line is the line of epoch 100 * (i - 1), it is printed
\* after that epoch's generator step and carries the losses and the accuracy
\* computed in that epoch; E epochs print ceil(E / 100) lines.
C6_LogLines ==
  /\ Len(log) = (PrintedThrough + 100) \div 100
  /\ \A i \in 1..Len(log) :
       /\ log[i].epoch = 100 * (i - 1)
       /\ log[i].of = {log[i].epoch}
       /\ log[i].epoch < n_gen
       /\ log[i].d_acc = "finite"
  /\ (pc = "done" => Len(log) = (epochs + 99) \div 100)

C6_Witness ==
  pc = "done" /\ Len(log) = 3 /\ log[2].epoch = 100 /\ log[3].epoch = 200

\* C7: a training step that raises an error ends the run: the step is not
\* retried, no training step follows it, no samples are generated, and
\* nothing executes after the abort.
C7_ErrorAborts ==
  /\ [](error # "none" => (pc = "aborted" /\ imgs = <<>>))
  /\ [](calls # Steps =>
          /\ calls = Steps + 1
          /\ error = "ValueError"
          /\ pc = "aborted")
  /\ [][pc # "aborted"]_vars

C7_Witness ==
  /\ pc = "aborted" /\ error = "ValueError"
  /\ calls = 1 /\ Steps = 0 /\ n_pred = 1 /\ Len(X_train) = 4

NaNLoss == rloss.loss = "nan" \/ floss.loss = "nan" \/ gloss.loss = "nan"

\* C8 as claimed: once a training step has yielded a NaN loss, no further
\* training step is executed.
C8_NaNIsFatal == [][NaNLoss => calls' = calls]_vars

\* C8 as amended: a NaN loss is not a failure of the step: the step raises no
\* error, the run is not aborted and the statement that follows the step in
\* the loop body is the next to execute. The run is aborted only by a raised
\* error.
C8_NaNNotFatal ==
  /\ [][ /\ ((n_real' # n_real /\ rloss'.loss = "nan") =>
               (pc' = "train_fake" /\ error' = "none"))
         /\ ((n_fake' # n_fake /\ floss'.loss = "nan") =>
               (pc' = "combine" /\ error' = "none"))
         /\ ((n_gen' # n_gen /\ gloss'.loss = "nan") =>
               (pc' = "print" /\ error' = "none")) ]_vars
  /\ [](pc = "aborted" => error # "none")

C8_Witness ==
  /\ pc = "train_fake" /\ epoch = 0 /\ rloss.loss = "nan" /\ error = "none"

\* C9: NaN parameters or losses are neither detected nor handled: the run
\* raises no error, performs every training step of every remaining epoch
\* and prints every diagnostic line, the lines computed from NaN included.
C9_NaNContinues ==
  (nanW["D"] \/ nanW["G"] \/ NaNLoss) =>
     /\ error = "none"
     /\ pc # "aborted"
     /\ (pc = "done" =>
           /\ n_real = epochs /\ n_fake = epochs /\ n_gen = epochs
           /\ Len(log) = (epochs + 99) \div 100
           /\ imgs # <<>>)

C9_Witness ==
  /\ pc = "done" /\ nanW["D"] /\ nanW["G"]
  /\ Len(log) = 3 /\ log[1].d_loss = "nan" /\ log[3].g_loss = "nan"

\* C10 as claimed: with N = floor(H * W / 4) < 1 no model is built and no
\* training step runs; the models are built only when N >= 1.
C10_RejectsSmallN ==
  (img_shape # <<>> /\ noise_res < 1) =>
     /\ layers["D"] = <<>>
     /\ layers["G"] = <<>>
     /\ collected["D"] = {}
     /\ collected["full_gan"] = {}
     /\ calls = 0


\* C12: absent a failure the loop terminates after exactly `epochs`
\* iterations with indices 0 .. epochs-1: every run ends (finished or
\* aborted by an error), a run without error finishes, the loop is left only
\* when the iteration of index epochs-1 is complete, and a finished run has
\* performed exactly `epochs` iterations.
C12_Terminates ==
  /\ <>(pc \in {"done", "aborted"})
  /\ [](pc = "aborted" => error # "none")
  /\ [](epoch \in -1 .. epochs - 1)
  /\ [](pc \in {"final", "done"} =>
          /\ epoch = epochs - 1
          /\ n_pred = epochs /\ n_real = epochs /\ n_fake = epochs
          /\ n_gen = epochs)
  /\ [][(pc = "loop" /\ pc' = "final") => (epoch = epochs - 1 /\ n_gen = epochs)]_vars

C12_Witness ==
  /\ pc = "final" /\ error = "none" /\ epoch + 1 = epochs /\ n_gen = epoch + 1


\* C13: the final samples are generated once per run, after the generator
\* step of the last epoch, from exactly 9 noise vectors of length N passed
\* through G; nothing uses the models afterwards: no training step and no
\* further predict call follows.
C13_FinalSampling ==
  /\ [](n_final <= 1)
  /\ [](n_final = 1 =>
          /\ pc = "done"
          /\ n_gen = epochs /\ epoch = epochs - 1
          /\ noise = <<9, noise_res>>
          /\ imgs = <<9, img_shape[1], img_shape[2]>>)
  /\ [](n_final = 0 => imgs = <<>>)
  /\ []((pc = "done") => n_final = 1)
  /\ [][n_final >= 1 =>
          (calls' = calls /\ n_pred' = n_pred /\ n_final' = n_final /\ W' = W)]_vars

C13_Witness ==
  /\ n_final = 1 /\ Len(imgs) = 3 /\ imgs[1] = 9 /\ noise[2] = noise_res
  /\ X_train = <<100, 28, 28>>


\* C14: every training batch pairs inputs and targets of equal length with
\* one label: the real batch has 16 images labelled 1, the fake batch 16
\* generated images labelled 0, the generator batch 32 noise vectors
\* labelled 1; in a discriminator step a real image is never labelled 0 and
\* a generated image never labelled 1. Every epoch feeds these three batches.
C14_BatchLabels ==
  /\ \A b \in fed :
       /\ b.y.len = b.size
       /\ (b.x = "real_imgs" => (b.model = "D" /\ b.size = 16 /\ b.y.value = 1))
       /\ (b.x = "fake_imgs" => (b.model = "D" /\ b.size = 16 /\ b.y.value = 0))
       /\ (b.x = "noise" => (b.model = "full_gan" /\ b.size = 32 /\ b.y.value = 1))
       /\ (b.model = "D" => b.x \in {"real_imgs", "fake_imgs"})
       /\ (b.model = "full_gan" => b.x = "noise")
  /\ (n_real >= 1 => \E b \in fed : b.x = "real_imgs")
  /\ (n_fake >= 1 => \E b \in fed : b.x = "fake_imgs")
  /\ (n_gen >= 1 => \E b \in fed : b.x = "noise")

C14_Witness ==
  /\ Cardinality(fed) = 3 /\ epoch = 1 /\ pc = "combine"

\* C15: D, G and the composite model share one parameter storage: the
\* generator step of epoch e evaluates D with the parameters left by the two
\* discriminator steps of epoch e (version 2(e+1)), and the fake batch of
\* epoch e+1 is produced by G with the parameters left by the generator step
\* of epoch e (version e+1).
C15_SharedStorage ==
  /\ (n_gen >= 1 => seen.gen_D = 2 * n_gen)
  /\ (n_pred >= 1 => seen.pred_G = n_pred - 1)
  /\ (pc = "print" => (seen.gen_D = W["D"] /\ W["D"] = 2 * (epoch + 1)))
  /\ (pc = "train_real" => (seen.pred_G = W["G"] /\ W["G"] = epoch))

C15_Witness ==
  /\ pc = "train_real" /\ epoch = 2 /\ seen.gen_D = 4 /\ seen.pred_G = 2


\* C16: the 16 indices of every real batch lie in 0 .. M-1 for a dataset of
\* M images and are drawn with replacement: an index may repeat, and a
\* dataset of fewer than 16 images still gives a real batch of exactly 16
\* images; indexing never fails and the dataset is never modified.
C16_RealIndices ==
  /\ [](real_idxs # <<>> =>
          /\ Len(real_idxs) = 16
          /\ \A i \in 1..Len(real_idxs) : real_idxs[i] \in 0 .. X_train[1] - 1
          /\ real_imgs = <<16>> \o Tail(X_train))
  /\ [](error = "IndexError" => (Len(X_train) < 3 /\ real_idxs = <<>>))
  /\ [](n_real >= 1 => real_idxs # <<>>)
  /\ [][X_train' = X_train]_vars

C16_Witness ==
  /\ X_train = <<2, 1, 2>> /\ pc = "train_real"
  /\ real_idxs[1] = 0 /\ real_idxs[2] = 1 /\ real_idxs[3] = 0
  /\ real_imgs[1] = 16

====
